---------------------------- MODULE Spec2Model ----------------------------
(***************************************************************************)
(* Model of the customer-success agent tooling:                            *)
(*   - llm_judge_cortex_search.py : response extraction and the LLM judge  *)
(*   - weekly_report_generator.py : the multi-section report generator and *)
(*     the batch loop over (csm, customer) pairs                           *)
(*                                                                         *)
(* A Python string is modelled as a sequence of tokens.  Every token is a  *)
(* fixed piece of text, so slicing, searching and joining are computed on  *)
(* the token sequence the way Python computes them on characters.          *)
(***************************************************************************)
EXTENDS Integers, Sequences, FiniteSets, TLC

VARIABLES
    \* ---- llm_judge_cortex_search.call_llm_judge
    jpc,            \* position inside call_llm_judge
    conn,           \* the judge's connection: "none", "open", "closed"
    llm_reply,      \* result[0], the text the scoring model returned
    judgment,       \* what call_llm_judge gave its caller
    scoring_calls,  \* how many times the scoring query was sent
    output_file,    \* the judgment record written by the judge's main
    \* ---- llm_judge_cortex_search: the extractors
    epc,            \* position of the extraction step
    response_data,  \* the loaded response payload
    agent_response, \* result of extract_agent_response
    case_studies,   \* result of extract_case_studies_from_response
    \* ---- weekly_report_generator.WeeklyReportGenerator
    mode,           \* "all" (generate_weekly_reports) or "single"
    pc,             \* position inside the run
    csms,           \* rows of the csm_assignments table
    ci, ki,         \* where the two for loops of the batch stand
    csm_id,         \* the csm of the report being generated
    customer_id,    \* the customer of the report being generated
    thread_id,      \* locals of generate_report_for_customer
    parent_message_id,
    report_sections,
    turns,          \* the turns the running invocation has made so far
    next_thread,    \* the agent service's thread counter
    calls,          \* every request sent so far: threads, agent runs, inserts
    report_count,
    errors,         \* the error lines printed by the per-customer except
    weekly_reports, \* rows of the weekly_reports table
    summary,        \* the COMPLETED line, once printed
    \* ---- weekly_report_generator.main
    generator_conn, \* generator.conn: "none", "open", "leaked", "closed"
    exit_status     \* "running", or the exit status of the process

judgeVars == <<jpc, conn, llm_reply, judgment, scoring_calls, output_file>>
extractVars == <<epc, response_data, agent_response, case_studies>>
loopVars == <<mode, csms, ci, ki, csm_id, customer_id>>
localVars == <<thread_id, parent_message_id, report_sections, turns>>
outVars == <<report_count, errors, weekly_reports, summary>>
mainVars == <<generator_conn, exit_status>>
reportVars == <<loopVars, localVars, outVars, mainVars, pc, next_thread, calls>>
vars == <<judgeVars, extractVars, reportVars>>

(***************************************************************************)
(* Bounds                                                                  *)
(***************************************************************************)
MaxReplyLen == 4      \* tokens in a judge reply
MaxContent == 3       \* content blocks in a response payload given to the extractors
MaxReplyBlocks == 2   \* content blocks in an agent reply (single-report runs)
MaxPairs == 3         \* customer ids in the csm_assignments table
MaxResults == 4       \* search results in the search tool results of a payload

(***************************************************************************)
(* Text tokens of a judge reply                                            *)
(***************************************************************************)
\* Each token names the piece of reply text it stands for.
Fence == "FENCE"               \* three backticks
JsonWord == "json"             \* the bare letters json
Newline == "NL"                \* a newline (whitespace)
JudgmentObject == "JUDGMENT"   \* the JSON object the prompt asks for
Digit == "5"                   \* a digit: a run of digits is a JSON number
Quote == "QUOTE"               \* a double quote
DeepNesting == "DEEP"          \* a run of [ deeper than the recursion limit

ReplyTokens == {Fence, JsonWord, Newline, JudgmentObject, Digit, Quote, DeepNesting}

RECURSIVE SeqsUpTo(_, _)
SeqsUpTo(S, n) ==
    IF n = 0 THEN {<<>>}
    ELSE LET shorter == SeqsUpTo(S, n - 1)
         IN  shorter \cup {Append(s, x) : s \in {t \in shorter : Len(t) = n - 1}, x \in S}

ReplyTexts == SeqsUpTo(ReplyTokens, MaxReplyLen)

(***************************************************************************)
(* String primitives                                                       *)
(***************************************************************************)
\* Python text[a:b] with 0-based character offsets counted in tokens
Slice(text, a, b) == SubSeq(text, a + 1, b)

\* Python str.index(needle, start): the first offset >= start where the
\* needle (a token sequence) occurs; found = FALSE stands for the ValueError
StrIndex(text, needle, start) ==
    LET hits == {p \in start..(Len(text) - Len(needle)) :
                    Slice(text, p, p + Len(needle)) = needle}
    IN  IF hits = {} THEN [found |-> FALSE]
        ELSE [found |-> TRUE, at |-> CHOOSE p \in hits : \A q \in hits : p <= q]

\* Python: needle in text
StrContains(text, needle) == StrIndex(text, needle, 0).found

\* Python str.strip(): whitespace removed from both ends
RECURSIVE LStrip(_)
LStrip(text) ==
    IF text # <<>> /\ Head(text) = Newline THEN LStrip(Tail(text)) ELSE text

RECURSIVE RStrip(_)
RStrip(text) ==
    IF text # <<>> /\ text[Len(text)] = Newline
    THEN RStrip(SubSeq(text, 1, Len(text) - 1)) ELSE text

StrStrip(text) == RStrip(LStrip(text))

ParagraphBreak == "PARA"        \* two newlines

\* Python sep.join(parts)
RECURSIVE Join(_, _)
Join(parts, sep) ==
    IF Len(parts) = 0 THEN <<>>
    ELSE IF Len(parts) = 1 THEN parts[1]
    ELSE parts[1] \o sep \o Join(Tail(parts), sep)

\* Python text.split(sep): the pieces between the occurrences of sep
RECURSIVE Split(_, _)
Split(text, sep) ==
    LET hit == StrIndex(text, sep, 0)
    IN  IF ~hit.found THEN <<text>>
        ELSE <<Slice(text, 0, hit.at)>>
                 \o Split(Slice(text, hit.at + Len(sep), Len(text)), sep)

(***************************************************************************)
(* json.loads                                                              *)
(***************************************************************************)
IsJsonNumber(s) == s # <<>> /\ \A i \in 1..Len(s) : s[i] = Digit

\* a string literal: quotes around characters that need no escape
IsJsonString(s) ==
    /\ Len(s) >= 2
    /\ s[1] = Quote /\ s[Len(s)] = Quote
    /\ \A i \in 2..(Len(s) - 1) : s[i] \notin {Quote, Newline, JudgmentObject}

\* json.loads(s): the decoded value, or the exception it raises.
\* JSONDecodeError is a ValueError; RecursionError is not.
json_loads(s) ==
    LET t == StrStrip(s)   \* the decoder skips surrounding whitespace itself
    IN  IF t # <<>> /\ t[1] = DeepNesting
            THEN [raised |-> "RecursionError"]
        ELSE IF t = <<JudgmentObject>>
            THEN [value |-> [type |-> "dict", judgment |-> TRUE, text |-> t]]
        ELSE IF IsJsonNumber(t)
            THEN [value |-> [type |-> "number", judgment |-> FALSE, text |-> t]]
        ELSE IF IsJsonString(t)
            THEN [value |-> [type |-> "str", judgment |-> FALSE, text |-> t]]
        ELSE [raised |-> "JSONDecodeError"]

Raised(r) == "raised" \in DOMAIN r

(***************************************************************************)
(* call_llm_judge: recovery of the judgment from the reply text            *)
(***************************************************************************)
JsonFence == <<Fence, JsonWord>>

\* a plausible slip: the two tests in the other order, so that the plain
\* fence is tried first and the json fence never
FencedTextAnyFenceFirst(judgment_text) ==
    IF StrContains(judgment_text, <<Fence>>) THEN
        LET json_start == StrIndex(judgment_text, <<Fence>>, 0).at + 1
            json_end   == StrIndex(judgment_text, <<Fence>>, json_start)
        IN  IF json_end.found
            THEN [text |-> Slice(judgment_text, json_start, json_end.at)]
            ELSE [raised |-> "ValueError"]
    ELSE [text |-> judgment_text]

\* the if / elif of the try block: which text goes to json.loads
FencedText(judgment_text) ==
    IF StrContains(judgment_text, JsonFence) THEN
        LET json_start == StrIndex(judgment_text, JsonFence, 0).at + Len(JsonFence)
            json_end   == StrIndex(judgment_text, <<Fence>>, json_start)
        IN  IF json_end.found
            THEN [text |-> Slice(judgment_text, json_start, json_end.at)]
            ELSE [raised |-> "ValueError"]
    ELSE IF StrContains(judgment_text, <<Fence>>) THEN
        LET json_start == StrIndex(judgment_text, <<Fence>>, 0).at + 1
            json_end   == StrIndex(judgment_text, <<Fence>>, json_start)
        IN  IF json_end.found
            THEN [text |-> Slice(judgment_text, json_start, json_end.at)]
            ELSE [raised |-> "ValueError"]
    ELSE [text |-> judgment_text]

\* except (ValueError, json.JSONDecodeError)
CaughtExceptions == {"ValueError", "JSONDecodeError"}

\* the except clause: judgment_text is whatever the variable holds by then
ParseFailure(exc, judgment_text) ==
    IF exc \in CaughtExceptions
    THEN [outcome |-> "return",
          value |-> [type |-> "dict", judgment |-> FALSE,
                     error |-> "Failed to parse JSON",
                     raw_response |-> judgment_text]]
    ELSE [outcome |-> "raise", exc |-> exc]

\* the try / except of call_llm_judge applied to result[0]
ParseJudgment(reply) ==
    LET fenced == FencedText(reply)
    IN  IF Raised(fenced) THEN ParseFailure(fenced.raised, reply)
        ELSE LET loaded == json_loads(StrStrip(fenced.text))
             IN  IF Raised(loaded) THEN ParseFailure(loaded.raised, fenced.text)
                 ELSE [outcome |-> "return", value |-> loaded.value]

NoJudgment == [outcome |-> "none"]

JudgeConnect ==
    /\ jpc = "start"
    /\ jpc' = "connected"
    /\ conn' = "open"
    /\ UNCHANGED <<llm_reply, judgment, scoring_calls, output_file>>
    /\ UNCHANGED <<extractVars, reportVars>>

\* snowflake.connector.connect raises: nothing was opened
JudgeConnectFail ==
    /\ jpc = "start"
    /\ jpc' = "done"
    /\ judgment' = [outcome |-> "raise", exc |-> "ConnectError"]
    /\ UNCHANGED <<conn, llm_reply, scoring_calls, output_file>>
    /\ UNCHANGED <<extractVars, reportVars>>

\* cursor.execute / fetchone deliver the scoring model's reply
JudgeExecute ==
    /\ jpc = "connected"
    /\ \E reply \in ReplyTexts : llm_reply' = reply
    /\ jpc' = "fetched"
    /\ scoring_calls' = scoring_calls + 1
    /\ UNCHANGED <<conn, judgment, output_file>>
    /\ UNCHANGED <<extractVars, reportVars>>

\* a plausible slip: the failure of the scoring query turned into a parse
\* failure value
ScoringFailureRecovered ==
    [outcome |-> "return",
     value |-> [type |-> "dict", judgment |-> FALSE,
                error |-> "Failed to parse JSON", raw_response |-> <<>>]]

\* nothing around cursor.execute catches its exception
ScoringFailure == [outcome |-> "raise", exc |-> "ProgrammingError"]

\* cursor.execute raises: the exception leaves call_llm_judge at once
JudgeExecuteFail ==
    /\ jpc = "connected"
    /\ jpc' = "done"
    /\ judgment' = ScoringFailure
    /\ scoring_calls' = scoring_calls + 1
    /\ UNCHANGED <<conn, llm_reply, output_file>>
    /\ UNCHANGED <<extractVars, reportVars>>

JudgeClose ==
    /\ jpc = "fetched"
    /\ jpc' = "closed"
    /\ conn' = "closed"
    /\ UNCHANGED <<llm_reply, judgment, scoring_calls, output_file>>
    /\ UNCHANGED <<extractVars, reportVars>>

JudgeParse ==
    /\ jpc = "closed"
    /\ jpc' = "done"
    /\ judgment' = ParseJudgment(llm_reply)
    /\ UNCHANGED <<conn, llm_reply, scoring_calls, output_file>>
    /\ UNCHANGED <<extractVars, reportVars>>

NoOutputFile == [written |-> FALSE]

(***************************************************************************)
(* Response payloads and the extractors                                    *)
(***************************************************************************)
\* dict.get(key, default)
Get(d, key, default) == IF key \in DOMAIN d THEN d[key] ELSE default

\* item.get("type") == t : a missing key gives None, equal to no type
TypeIs(item, t) == "type" \in DOMAIN item /\ item.type = t

\* content blocks, with every optional key present or absent
ContentItems ==
    { [type |-> "text", text |-> <<"a">>],
      [type |-> "text", text |-> <<"b">>],
      [type |-> "text"],
      [type |-> "tool_result"],
      [text |-> <<"a">>] }

\* a response file: with or without the content key
ResponsePayloads ==
    {[content |-> c] : c \in SeqsUpTo(ContentItems, MaxContent)} \cup {[id |-> "r"]}

NoAgentResponse == <<"No agent response found">>

\* a plausible slip: the scan made forwards, so that the first text block wins
RECURSIVE FirstTextFrom(_, _)
FirstTextFrom(content, i) ==
    IF i > Len(content) THEN NoAgentResponse
    ELSE IF TypeIs(content[i], "text") THEN Get(content[i], "text", <<>>)
    ELSE FirstTextFrom(content, i + 1)

ForwardScanText(content, i) == FirstTextFrom(content, 1)

\* for item in reversed(content), from index i down: the first text block met
RECURSIVE ReversedScanText(_, _)
ReversedScanText(content, i) ==
    IF i = 0 THEN NoAgentResponse
    ELSE IF TypeIs(content[i], "text") THEN Get(content[i], "text", <<>>)
    ELSE ReversedScanText(content, i - 1)

extract_agent_response(data) ==
    LET content == Get(data, "content", <<>>)
    IN  ReversedScanText(content, Len(content))

NoText == <<"not extracted">>

ExtractAgentResponse ==
    /\ epc = "loaded"
    /\ epc' = "extracted"
    /\ agent_response' = extract_agent_response(response_data)
    /\ UNCHANGED <<response_data, case_studies>>
    /\ UNCHANGED <<judgeVars, reportVars>>

(***************************************************************************)
(* extract_case_studies_from_response                                      *)
(***************************************************************************)
SearchMarker == <<"cortex_search">>   \* the text looked for in the tool name
Rule == "---"
Separator == <<ParagraphBreak, Rule, ParagraphBreak>>   \* "\n\n---\n\n"
NoCaseStudies == <<"No case studies found in tool results">>

EmptyDict == [key \in {} |-> <<>>]    \* {}
None == [none |-> TRUE]               \* a JSON null where a dict is expected

\* ---- the collection loop; a step gives [texts |-> ...] or [raised |-> ...]
NoTexts == [texts |-> <<>>]

\* a plausible slip: the texts of a later step put in front
ThenPrepended(first, rest) ==
    IF Raised(first) THEN first
    ELSE IF Raised(rest) THEN rest
    ELSE [texts |-> rest.texts \o first.texts]

\* one pass of a for loop followed by the remaining passes: appends are made
\* in iteration order, and an exception ends the loop
Then(first, rest) ==
    IF Raised(first) THEN first
    ELSE IF Raised(rest) THEN rest
    ELSE [texts |-> first.texts \o rest.texts]

\* for result in c["json"]["search_results"]:
\*     case_studies.append(result.get("text", ""))
RECURSIVE ResultTexts(_)
ResultTexts(search_results) ==
    IF Len(search_results) = 0 THEN NoTexts
    ELSE Then(IF Head(search_results) = None
              THEN [raised |-> "AttributeError"]   \* None has no get
              ELSE [texts |-> <<Get(Head(search_results), "text", <<>>)>>],
              ResultTexts(Tail(search_results)))

\* if "json" in c and "search_results" in c["json"]
PartTexts(c) ==
    IF "json" \notin DOMAIN c THEN NoTexts
    ELSE IF c.json = None THEN [raised |-> "TypeError"]   \* x in None
    ELSE IF "search_results" \notin DOMAIN c.json THEN NoTexts
    ELSE ResultTexts(c.json.search_results)

\* for c in content
RECURSIVE ContentTexts(_)
ContentTexts(content) ==
    IF Len(content) = 0 THEN NoTexts
    ELSE Then(PartTexts(Head(content)), ContentTexts(Tail(content)))

\* the body of the loop over response_data.get("content", [])
ItemTexts(item) ==
    IF ~TypeIs(item, "tool_result") THEN NoTexts
    ELSE LET tool_result == Get(item, "tool_result", EmptyDict)
         IN  IF tool_result = None THEN [raised |-> "AttributeError"]
             ELSE IF ~StrContains(Get(tool_result, "name", <<>>), SearchMarker)
                 THEN NoTexts
             ELSE ContentTexts(Get(tool_result, "content", <<>>))

RECURSIVE CaseStudies(_)
CaseStudies(content) ==
    IF Len(content) = 0 THEN NoTexts
    ELSE Then(ItemTexts(Head(content)), CaseStudies(Tail(content)))

\* [value |-> the returned string] or [raised |-> the exception]
extract_case_studies_from_response(data) ==
    LET collected == CaseStudies(Get(data, "content", <<>>))
    IN  IF Raised(collected) THEN collected
        ELSE [value |-> IF Len(collected.texts) > 0
                        THEN Join(collected.texts, Separator)
                        ELSE NoCaseStudies]

ExtractCaseStudies ==
    /\ epc = "extracted"
    /\ LET returned == extract_case_studies_from_response(response_data)
       IN  IF Raised(returned)
           THEN epc' = "raised" /\ UNCHANGED case_studies
           ELSE epc' = "evidence" /\ case_studies' = returned.value
    /\ UNCHANGED <<response_data, agent_response>>
    /\ UNCHANGED <<judgeVars, reportVars>>

\* ---- response payloads with search tool results
SearchNames == {SearchMarker, <<"my_", "cortex_search", "_tool">>}

Result(n) == [text |-> <<"t" \o ToString(n)>>]

ToolResult(tool_result) == [type |-> "tool_result", tool_result |-> tool_result]

RECURSIVE Ascending(_)
Ascending(S) ==
    IF S = {} THEN <<>>
    ELSE LET least == CHOOSE p \in S : \A q \in S : p <= q
         IN  <<least>> \o Ascending(S \ {least})

\* a..b cut into the pieces that begin at the given positions
Pieces(starts, a, b) ==
    LET s == Ascending({p \in starts : a <= p /\ p <= b})
    IN  [k \in 1..Len(s) |-> <<s[k], IF k = Len(s) THEN b ELSE s[k + 1] - 1>>]

SearchPart(a, b) ==
    [json |-> [search_results |-> [k \in 1..(b - a + 1) |-> Result(a + k - 1)]]]

\* results 1..n laid out in tool results: cut[k] tells whether result k + 1
\* goes on in the same list, opens a new content part or opens a new block
Cuts == {"result", "part", "block"}

SearchBlocks(name, n, cut) ==
    LET blockStarts == {1} \cup {k + 1 : k \in {j \in 1..(n - 1) : cut[j] = "block"}}
        partStarts  == {1} \cup {k + 1 : k \in {j \in 1..(n - 1) : cut[j] # "result"}}
        blocks == Pieces(blockStarts, 1, n)
    IN  [i \in 1..Len(blocks) |->
            LET parts == Pieces(partStarts, blocks[i][1], blocks[i][2])
            IN  ToolResult([name |-> name,
                            content |-> [j \in 1..Len(parts) |->
                                            SearchPart(parts[j][1], parts[j][2])]])]

OtherPart == [json |-> [search_results |-> <<[text |-> <<"x">>]>>]]
SearchResult(content) == ToolResult([name |-> SearchMarker, content |-> content])

\* blocks that hold no search result text, or hold it where it is not looked for
OtherBlocks ==
    { [type |-> "text", text |-> <<"a">>],
      [type |-> "text"],
      [type |-> "tool_result"],
      [tool_result |-> [name |-> SearchMarker, content |-> <<OtherPart>>]],
      [type |-> "tool_use", tool_result |-> [name |-> SearchMarker, content |-> <<OtherPart>>]],
      ToolResult([content |-> <<OtherPart>>]),
      ToolResult([name |-> <<"analyst">>, content |-> <<OtherPart>>]),
      ToolResult([name |-> SearchMarker]),
      SearchResult(<<>>),
      SearchResult(<<[text |-> <<"x">>]>>),
      SearchResult(<<[json |-> [status |-> <<"ok">>]]>>),
      SearchResult(<<[json |-> [search_results |-> <<>>]]>>),
      SearchResult(<<[json |-> [search_results |-> <<[score |-> <<"1">>]>>]]>>),
      ToolResult(None),
      SearchResult(<<[json |-> None]>>),
      SearchResult(<<[json |-> [search_results |-> <<None>>]]>>) }

Insert(s, at, x) == SubSeq(s, 1, at) \o <<x>> \o SubSeq(s, at + 1, Len(s))

\* the search blocks alone, or with one other block at any place among them
EvidenceContents ==
    UNION { UNION { LET blocks == SearchBlocks(name, n, cut)
                    IN  {blocks} \cup {Insert(blocks, at, x) :
                                           at \in 0..Len(blocks), x \in OtherBlocks} :
                    name \in SearchNames, cut \in [1..(n - 1) -> Cuts] } :
            n \in 0..MaxResults }

EvidencePayloads == {[content |-> c] : c \in EvidenceContents} \cup {[id |-> "r"]}

(***************************************************************************)
(* main of llm_judge_cortex_search.py                                      *)
(***************************************************************************)
\* call_llm_judge is entered once both extractors have returned
MainCallJudge ==
    /\ epc = "evidence" /\ jpc = "idle"
    /\ jpc' = "start"
    /\ UNCHANGED <<conn, llm_reply, judgment, scoring_calls, output_file>>
    /\ UNCHANGED <<extractVars, reportVars>>

\* the metadata of output_data, lengths counted in tokens:
\* len(agent_response) and len(case_studies.split('---'))
Metadata(response, studies) ==
    [agent_response_length |-> Len(response),
     num_case_studies |-> Len(Split(studies, <<Rule>>))]

\* main, after call_llm_judge has returned: output_data is dumped to the
\* output file (an exception of call_llm_judge ends main before that)
JudgeWriteOutput ==
    /\ jpc = "done"
    /\ judgment.outcome = "return"
    /\ jpc' = "saved"
    /\ output_file' = [written |-> TRUE, judgment |-> judgment.value,
                       metadata |-> Metadata(agent_response, case_studies)]
    /\ UNCHANGED <<conn, llm_reply, judgment, scoring_calls>>
    /\ UNCHANGED <<extractVars, reportVars>>

\* response files given to main: without content, with no, one or two search
\* results, and with a result whose text holds a rule of its own
RuledResult == [text |-> <<"t1", Rule, "t2">>]

MainPayloads ==
    {[id |-> "r"]}
    \cup {[content |-> SearchBlocks(SearchMarker, n, [k \in 1..(n - 1) |-> "result"])] :
             n \in 0..2}
    \cup {[content |-> <<SearchResult(<<[json |-> [search_results |-> <<RuledResult>>]]>>)>>]}

(***************************************************************************)
(* WeeklyReportGenerator                                                   *)
(***************************************************************************)
\* a plausible slip: the sections dict written in another order
SectionsReordered == <<"business_value", "performance", "recommendations">>

\* the keys of the sections dict, in insertion order
SectionNames == <<"performance", "business_value", "recommendations">>

\* a plausible slip: one session kept and used for every report of the run
SharedThread(n) == <<"thread", 1>>

\* ids the agent service hands out
ThreadId(n) == <<"thread", n>>

MsgId(thread, k) == <<"msg", thread[2], k>>
NoValue == <<>>

\* a plausible slip: the id is not set back, a report starts from the last
\* message id of the report before it
CarriedParent ==
    IF next_thread > 1 THEN MsgId(ThreadId(next_thread - 1), 3) ELSE <<"0">>

\* parent_message_id = "0"
FirstParent == <<"0">>

\* a plausible slip: only the last text block is kept
LastTextPartOnly(content) ==
    LET texts == {i \in 1..Len(content) : TypeIs(content[i], "text")}
    IN  IF texts = {} THEN <<>>
        ELSE <<Get(content[CHOOSE i \in texts : \A j \in texts : j <= i], "text", <<>>)>>

\* the loop over response['message']['content'] filling text_parts
RECURSIVE TextParts(_)
TextParts(content) ==
    IF content = <<>> THEN <<>>
    ELSE (IF TypeIs(Head(content), "text")
          THEN <<Get(Head(content), "text", <<>>)>> ELSE <<>>)
         \o TextParts(Tail(content))

extract_text_from_response(response) ==
    LET text_parts ==
            IF "message" \in DOMAIN response /\ "content" \in DOMAIN response.message
            THEN TextParts(response.message.content)
            ELSE <<>>
    IN  Join(text_parts, <<ParagraphBreak>>)

\* ---- inputs
CsmIds == <<"csm1", "csm2">>
CustomerIds == {"c1", "c2", "", "undefined"}

CsmRow(k, ids) == [csm_id |-> CsmIds[k], csm_name |-> <<"name", k>>, customer_ids |-> ids]

\* the customer ids of a table, read row after row: the ids of two customers
\* alternate, so that neighbours differ and an id comes again under the
\* second csm, and any place may hold an id the batch skips instead
IdLists ==
    {ids \in SeqsUpTo(CustomerIds, MaxPairs) :
        \A k \in 1..Len(ids) :
            ids[k] \in {IF k % 2 = 1 THEN "c1" ELSE "c2", "", "undefined"}}

\* the csm_assignments table: no row, one row, or two rows sharing at most
\* MaxPairs customer ids between them
CsmTables ==
    {<<>>}
    \cup {<<CsmRow(1, ids)>> : ids \in IdLists}
    \cup UNION { {<<CsmRow(1, SubSeq(ids, 1, k)), CsmRow(2, SubSeq(ids, k + 1, Len(ids)))>> :
                    k \in 0..Len(ids)} : ids \in IdLists }

\* blocks of an agent reply
ReplyBlocks ==
    { [type |-> "text", text |-> <<"a">>],
      [type |-> "text", text |-> <<"b">>],
      [type |-> "tool_result"] }

TwoTexts == <<[type |-> "text", text |-> <<"a">>], [type |-> "text", text |-> <<"b">>]>>

\* replies of the agent in a batch: with and without a message_id
BatchReplies(id) ==
    { [message_id |-> id, message |-> [content |-> TwoTexts]],
      [message |-> [content |-> TwoTexts]] }

\* replies of the agent in a single-report run: every content of up to
\* MaxReplyBlocks blocks, and replies with keys missing
SingleReplies(id) ==
    { [message_id |-> id, message |-> [content |-> c]] :
          c \in SeqsUpTo(ReplyBlocks, MaxReplyBlocks) }
    \cup { [message_id |-> id, message |-> [content |-> <<[type |-> "text"]>>]],
           [message_id |-> id, message |-> [role |-> "assistant"]],
           [message_id |-> id],
           [message |-> [content |-> TwoTexts]] }

AgentReplies(id) == IF mode = "all" THEN BatchReplies(id) ELSE SingleReplies(id)

\* ---- bookkeeping of requests
Call(op, ok, thread) ==
    [op |-> op, ok |-> ok, pair |-> <<ci, ki>>, csm_id |-> csm_id,
     customer_id |-> customer_id, thread_id |-> thread]

\* one turn of the running invocation: what call_agent was given and returned
Turn(section, response) ==
    [thread_id |-> thread_id, parent_message_id |-> parent_message_id,
     section |-> section, response |-> response]

EmptySections == [name \in {} |-> <<>>]

NoLocals ==
    /\ thread_id' = NoValue
    /\ parent_message_id' = NoValue
    /\ report_sections' = EmptySections
    /\ turns' = <<>>

\* a plausible slip: no try / except around the customer, the exception
\* leaves the batch as well
ExceptionPropagates(error) ==
    /\ NoLocals
    /\ pc' = "raised"
    /\ UNCHANGED <<errors, ki>>

\* a plausible slip: the customer is tried once more after its first failure
RetryOnce(error) ==
    /\ NoLocals
    /\ errors' = Append(errors, [customer_id |-> customer_id, error |-> error])
    /\ IF mode = "all" /\ \A n \in 1..Len(calls) : calls[n].pair = <<ci, ki>> => calls[n].ok
       THEN pc' = "create_thread" /\ UNCHANGED ki
       ELSE pc' = "loop" /\ ki' = ki + 1

\* a plausible slip: the try placed around the inner for, a failure ends the
\* customers of the csm
RaiseBreaks(error) ==
    /\ NoLocals
    /\ errors' = Append(errors, [customer_id |-> customer_id, error |-> error])
    /\ pc' = "loop"
    /\ ki' = Len(csms[ci].customer_ids) + 1

\* an exception leaves generate_report_for_customer or save_report_to_database:
\* the batch catches it at the customer (except Exception), prints the error
\* line and goes on with the next customer; a single-report run lets it out
Raise(error) ==
    /\ NoLocals
    /\ IF mode = "all"
       THEN /\ errors' = Append(errors, [customer_id |-> customer_id, error |-> error])
            /\ pc' = "loop"
            /\ ki' = ki + 1
       ELSE /\ pc' = "raised"
            /\ UNCHANGED <<errors, ki>>

\* ---- generate_weekly_reports: the two loops
GetCsmAssignments ==
    /\ pc = "start" /\ mode = "all"
    /\ pc' = "loop"
    /\ ci' = 1 /\ ki' = 1
    /\ report_count' = 0
    /\ UNCHANGED <<mode, csms, csm_id, customer_id, localVars, next_thread, calls,
                   errors, weekly_reports, summary>>
    /\ UNCHANGED <<judgeVars, extractVars, mainVars>>

\* the query of get_csm_assignments raises: nothing catches it
GetCsmAssignmentsFail ==
    /\ pc = "start" /\ mode = "all"
    /\ pc' = "raised"
    /\ UNCHANGED <<loopVars, localVars, outVars, next_thread, calls>>
    /\ UNCHANGED <<judgeVars, extractVars, mainVars>>

InCsm == ci <= Len(csms)
InCustomers == InCsm /\ ki <= Len(csms[ci].customer_ids)

\* a plausible slip: the guard on the customer id left out
AnyCustomer(id) == TRUE

\* a plausible slip: only the truth test, 'undefined' taken for a customer
NonEmptyCustomer(id) == id # ""

\* if customer_id and customer_id != 'undefined'
ValidCustomer(id) == id # "" /\ id # "undefined"

\* the inner for is exhausted: on to the next csm
NextCsm ==
    /\ pc = "loop" /\ InCsm /\ ~InCustomers
    /\ ci' = ci + 1 /\ ki' = 1
    /\ UNCHANGED <<mode, csms, csm_id, customer_id, localVars, outVars, pc, next_thread, calls>>
    /\ UNCHANGED <<judgeVars, extractVars, mainVars>>

SkipCustomer ==
    /\ pc = "loop" /\ InCustomers
    /\ ~ValidCustomer(csms[ci].customer_ids[ki])
    /\ ki' = ki + 1
    /\ UNCHANGED <<mode, csms, ci, csm_id, customer_id, localVars, outVars, pc, next_thread, calls>>
    /\ UNCHANGED <<judgeVars, extractVars, mainVars>>

\* the try block is entered for a customer
BeginCustomer ==
    /\ pc = "loop" /\ InCustomers
    /\ ValidCustomer(csms[ci].customer_ids[ki])
    /\ csm_id' = csms[ci].csm_id
    /\ customer_id' = csms[ci].customer_ids[ki]
    /\ pc' = "create_thread"
    /\ UNCHANGED <<mode, csms, ci, ki, localVars, outVars, next_thread, calls>>
    /\ UNCHANGED <<judgeVars, extractVars, mainVars>>

\* a plausible slip: the COMPLETED lines indented into the outer for
SummaryAfterFirstCsm == pc = "loop" /\ (~InCsm \/ (ci > 1 /\ ki = 1))

\* both for loops are over
LoopsOver == pc = "loop" /\ ~InCsm

\* the COMPLETED lines are printed after the loops
PrintSummary ==
    /\ LoopsOver
    /\ summary' = [generated |-> report_count]
    /\ pc' = "done"
    /\ UNCHANGED <<loopVars, localVars, report_count, errors, weekly_reports, next_thread, calls>>
    /\ UNCHANGED <<judgeVars, extractVars, mainVars>>

\* ---- generate_single_report: the csm lookup
CsmFound(id) == \E k \in 1..Len(csms) : csms[k].csm_id = id

SingleLookup ==
    /\ pc = "start" /\ mode = "single"
    /\ CsmFound(csm_id)
    /\ pc' = "create_thread"
    /\ UNCHANGED <<loopVars, localVars, outVars, next_thread, calls>>
    /\ UNCHANGED <<judgeVars, extractVars, mainVars>>

\* raise ValueError(f"CSM {csm_id} not found"), or the query itself raises
SingleLookupFail ==
    /\ pc = "start" /\ mode = "single"
    /\ pc' = "raised"
    /\ UNCHANGED <<loopVars, localVars, outVars, next_thread, calls>>
    /\ UNCHANGED <<judgeVars, extractVars, mainVars>>

\* ---- generate_report_for_customer
CreateThread ==
    /\ pc = "create_thread"
    /\ thread_id' = ThreadId(next_thread)
    /\ next_thread' = next_thread + 1
    /\ report_sections' = EmptySections
    /\ parent_message_id' = FirstParent
    /\ turns' = <<>>
    /\ calls' = Append(calls, Call("create_thread", TRUE, ThreadId(next_thread)))
    /\ pc' = "sections"
    /\ UNCHANGED <<loopVars, outVars>>
    /\ UNCHANGED <<judgeVars, extractVars, mainVars>>

\* requests.post or raise_for_status raises in create_thread
CreateThreadFail ==
    /\ pc = "create_thread"
    /\ calls' = Append(calls, Call("create_thread", FALSE, NoValue))
    /\ Raise("create_thread")
    /\ UNCHANGED <<mode, csms, ci, csm_id, customer_id, next_thread,
                   report_count, weekly_reports, summary>>
    /\ UNCHANGED <<judgeVars, extractVars, mainVars>>

NextSection == SectionNames[Len(turns) + 1]

\* a plausible slip: the parent is never advanced
KeepParent(response, parent) == parent

\* parent_message_id = response.get('message_id', parent_message_id)
NextParent(response, parent) == Get(response, "message_id", parent)

\* one pass of the for loop over sections.items(): call_agent answers
CallAgent ==
    /\ pc = "sections"
    /\ \E response \in AgentReplies(MsgId(thread_id, Len(turns) + 1)) :
         /\ report_sections' =
                [name \in DOMAIN report_sections \cup {NextSection} |->
                    IF name = NextSection
                    THEN extract_text_from_response(response)
                    ELSE report_sections[name]]
         /\ parent_message_id' = NextParent(response, parent_message_id)
         /\ turns' = Append(turns, Turn(NextSection, response))
    /\ calls' = Append(calls, Call("call_agent", TRUE, thread_id))
    /\ pc' = IF Len(turns) + 1 = Len(SectionNames) THEN "save" ELSE "sections"
    /\ UNCHANGED <<loopVars, outVars, thread_id, next_thread>>
    /\ UNCHANGED <<judgeVars, extractVars, mainVars>>

\* requests.post or raise_for_status raises in call_agent
CallAgentFail ==
    /\ pc = "sections"
    /\ calls' = Append(calls, Call("call_agent", FALSE, thread_id))
    /\ Raise("call_agent")
    /\ UNCHANGED <<mode, csms, ci, csm_id, customer_id, next_thread,
                   report_count, weekly_reports, summary>>
    /\ UNCHANGED <<judgeVars, extractVars, mainVars>>

\* ---- format_full_report and save_report_to_database
CsmName(id) == (CHOOSE k \in 1..Len(csms) : csms[k].csm_id = id)

format_full_report(customer, name, sections) ==
    <<customer, name, sections["performance"], sections["business_value"],
      sections["recommendations"]>>

ReportRow ==
    [csm_id |-> csm_id, customer_id |-> customer_id,
     performance_section |-> report_sections["performance"],
     business_value_section |-> report_sections["business_value"],
     recommendations_section |-> report_sections["recommendations"],
     full_report |-> format_full_report(customer_id, csms[CsmName(csm_id)].csm_name,
                                        report_sections)]

\* a plausible slip: report_count += 1 put before the save, so that a report
\* whose save fails is counted too
CountAttempted(count, saved) == count + 1

\* report_count += 1 stands after save_report_to_database in the try: it is
\* reached only when the save has returned
CountSaved(count, saved) == IF saved THEN count + 1 ELSE count

SaveReport ==
    /\ pc = "save"
    /\ weekly_reports' = Append(weekly_reports, ReportRow)
    /\ calls' = Append(calls, Call("save_report", TRUE, NoValue))
    /\ NoLocals
    /\ IF mode = "all"
       THEN /\ report_count' = CountSaved(report_count, TRUE)
            /\ ki' = ki + 1
            /\ pc' = "loop"
       ELSE /\ pc' = "done"
            /\ UNCHANGED <<report_count, ki>>
    /\ UNCHANGED <<mode, csms, ci, csm_id, customer_id, next_thread, errors, summary>>
    /\ UNCHANGED <<judgeVars, extractVars, mainVars>>

\* save_report_to_database raises: at the INSERT (no row), or after it, at
\* the LAST_QUERY_ID query or the commit (the row is already in the table)
SaveReportFail ==
    /\ pc = "save"
    /\ \E inserted \in BOOLEAN :
         weekly_reports' = IF inserted THEN Append(weekly_reports, ReportRow)
                           ELSE weekly_reports
    /\ calls' = Append(calls, Call("save_report", FALSE, NoValue))
    /\ Raise("save_report")
    /\ report_count' = IF mode = "all" THEN CountSaved(report_count, FALSE) ELSE report_count
    /\ UNCHANGED <<mode, csms, ci, csm_id, customer_id, next_thread, summary>>
    /\ UNCHANGED <<judgeVars, extractVars, mainVars>>

\* ---- main: the generator is constructed, the arguments are checked inside
\* the try, and the finally clause closes the connection
MainConstruct ==
    /\ pc = "main" /\ mode \in {"all", "single"}
    /\ generator_conn' = "open"
    /\ pc' = IF mode = "single" THEN "args" ELSE "start"
    /\ UNCHANGED <<loopVars, localVars, outVars, exit_status, next_thread, calls>>
    /\ UNCHANGED <<judgeVars, extractVars>>

\* WeeklyReportGenerator() raises before the try is entered: in connect
\* (nothing was opened), or in _get_account_url (self.conn is open and
\* nothing closes it)
MainConstructFail ==
    /\ pc = "main" /\ mode \in {"all", "single"}
    /\ \E opened \in BOOLEAN :
         generator_conn' = IF opened THEN "leaked" ELSE "none"
    /\ pc' = "raised"
    /\ exit_status' = "1"
    /\ UNCHANGED <<loopVars, localVars, outVars, next_thread, calls>>
    /\ UNCHANGED <<judgeVars, extractVars>>

\* a plausible slip: and in the place of or
BothArgsMissing == csm_id = "" /\ customer_id = ""

\* if not args.csm_id or not args.customer_id ("" stands for an argument
\* that was not given, or given empty)
ArgsMissing == csm_id = "" \/ customer_id = ""

MainArgsOk ==
    /\ pc = "args"
    /\ ~ArgsMissing
    /\ pc' = "start"
    /\ UNCHANGED <<loopVars, localVars, outVars, mainVars, next_thread, calls>>
    /\ UNCHANGED <<judgeVars, extractVars>>

\* parser.error(...): the usage message, then SystemExit(2)
MainArgsError ==
    /\ pc = "args"
    /\ ArgsMissing
    /\ pc' = "rejected"
    /\ UNCHANGED <<loopVars, localVars, outVars, mainVars, next_thread, calls>>
    /\ UNCHANGED <<judgeVars, extractVars>>

\* finally: generator.close(), on the way out of the try
MainFinally ==
    /\ pc \in {"done", "raised", "rejected"}
    /\ generator_conn = "open"
    /\ generator_conn' = "closed"
    /\ exit_status' = IF pc = "done" THEN "0" ELSE IF pc = "raised" THEN "1" ELSE "2"
    /\ UNCHANGED <<loopVars, localVars, outVars, pc, next_thread, calls>>
    /\ UNCHANGED <<judgeVars, extractVars>>

(***************************************************************************)
(* Specifications                                                          *)
(***************************************************************************)
IdleJudge ==
    /\ jpc = "idle"
    /\ conn = "none"
    /\ llm_reply = <<>>
    /\ judgment = NoJudgment
    /\ scoring_calls = 0
    /\ output_file = NoOutputFile

IdleExtract ==
    /\ epc = "idle"
    /\ response_data = [id |-> "r"]
    /\ agent_response = NoText
    /\ case_studies = NoText

NoSummary == [none |-> TRUE]

ReportStart ==
    /\ pc = "main"
    /\ generator_conn = "none"
    /\ exit_status = "running"
    /\ ci = 1 /\ ki = 1
    /\ thread_id = NoValue
    /\ parent_message_id = NoValue
    /\ report_sections = EmptySections
    /\ turns = <<>>
    /\ next_thread = 1
    /\ calls = <<>>
    /\ report_count = 0
    /\ errors = <<>>
    /\ weekly_reports = <<>>
    /\ summary = NoSummary

IdleReport ==
    /\ ReportStart
    /\ mode = "none"
    /\ csms = <<>>
    /\ csm_id = "" /\ customer_id = ""

\* ---- call_llm_judge
InitJudge ==
    /\ jpc = "start"
    /\ conn = "none"
    /\ llm_reply = <<>>
    /\ judgment = NoJudgment
    /\ scoring_calls = 0
    /\ output_file = NoOutputFile
    /\ IdleExtract /\ IdleReport

NextJudge ==
    \/ JudgeConnect
    \/ JudgeConnectFail
    \/ JudgeExecute
    \/ JudgeExecuteFail
    \/ JudgeClose
    \/ JudgeParse
    \/ JudgeWriteOutput

SpecJudge == InitJudge /\ [][NextJudge]_vars

\* ---- the extractors on a loaded response payload
InitExtract ==
    /\ epc = "loaded"
    /\ response_data \in ResponsePayloads
    /\ agent_response = NoText
    /\ case_studies = NoText
    /\ IdleJudge /\ IdleReport

NextExtract ==
    \/ ExtractAgentResponse

SpecExtract == InitExtract /\ [][NextExtract]_vars

\* ---- both extractors on a loaded response payload, as main runs them
InitEvidence ==
    /\ epc = "loaded"
    /\ response_data \in EvidencePayloads
    /\ agent_response = NoText
    /\ case_studies = NoText
    /\ IdleJudge /\ IdleReport

NextEvidence ==
    \/ ExtractAgentResponse
    \/ ExtractCaseStudies

SpecEvidence == InitEvidence /\ [][NextEvidence]_vars

\* ---- main of the judge: the extractors, call_llm_judge, the output file
InitMain ==
    /\ epc = "loaded"
    /\ response_data \in MainPayloads
    /\ agent_response = NoText
    /\ case_studies = NoText
    /\ IdleJudge /\ IdleReport

NextMain ==
    \/ ExtractAgentResponse
    \/ ExtractCaseStudies
    \/ MainCallJudge
    \/ JudgeConnect
    \/ JudgeConnectFail
    \/ JudgeExecute
    \/ JudgeExecuteFail
    \/ JudgeClose
    \/ JudgeParse
    \/ JudgeWriteOutput

SpecMain == InitMain /\ [][NextMain]_vars

\* ---- generate_weekly_reports over every table of assignments
Init ==
    /\ ReportStart
    /\ mode = "all"
    /\ csms \in CsmTables
    /\ csm_id = "" /\ customer_id = ""
    /\ IdleJudge /\ IdleExtract

Next ==
    \/ MainConstruct
    \/ MainConstructFail
    \/ GetCsmAssignments
    \/ GetCsmAssignmentsFail
    \/ NextCsm
    \/ SkipCustomer
    \/ BeginCustomer
    \/ CreateThread
    \/ CreateThreadFail
    \/ CallAgent
    \/ CallAgentFail
    \/ SaveReport
    \/ SaveReportFail
    \/ PrintSummary
    \/ MainFinally

Spec == Init /\ [][Next]_vars

\* ---- generate_single_report(csm_id, customer_id)
SingleCsmTable == <<CsmRow(1, <<"c1">>)>>

InitSingle ==
    /\ ReportStart
    /\ mode = "single"
    /\ csms = SingleCsmTable
    /\ csm_id \in {"csm1", "csm2", ""}
    /\ customer_id \in {"c1", "undefined", ""}
    /\ IdleJudge /\ IdleExtract

NextSingle ==
    \/ MainConstruct
    \/ MainConstructFail
    \/ MainArgsOk
    \/ MainArgsError
    \/ SingleLookup
    \/ SingleLookupFail
    \/ CreateThread
    \/ CreateThreadFail
    \/ CallAgent
    \/ CallAgentFail
    \/ SaveReport
    \/ SaveReportFail
    \/ MainFinally

SpecSingle == InitSingle /\ [][NextSingle]_vars

(***************************************************************************)
(* Properties of the extractors (checked under SpecExtract)                *)
(***************************************************************************)
\* C10: extract_agent_response returns the text of the last block of type
\* text, and the no-answer sentinel exactly when there is no text block.
C10_LastTextBlockOrSentinel ==
    epc = "extracted" =>
        LET content == IF "content" \in DOMAIN response_data
                       THEN response_data.content ELSE <<>>
            texts == {i \in 1..Len(content) : TypeIs(content[i], "text")}
        IN  IF texts = {}
            THEN agent_response = NoAgentResponse
            ELSE /\ agent_response # NoAgentResponse
                 /\ LET last == CHOOSE i \in texts : \A j \in texts : j <= i
                    IN  agent_response = Get(content[last], "text", <<>>)

\* two text blocks with different bodies, the last followed by another block
C10_Witness ==
    /\ epc = "extracted"
    /\ "content" \in DOMAIN response_data
    /\ Len(response_data.content) = 3
    /\ response_data.content[1] = [type |-> "text", text |-> <<"a">>]
    /\ response_data.content[2] = [type |-> "text", text |-> <<"b">>]
    /\ response_data.content[3] = [type |-> "tool_result"]
    /\ agent_response = <<"b">>

(***************************************************************************)
(* Properties of evidence extraction (checked under SpecEvidence)          *)
(***************************************************************************)
PayloadContent == IF "content" \in DOMAIN response_data THEN response_data.content ELSE <<>>

\* a block of type tool_result whose tool name holds the search marker
IsSearchBlock(item) ==
    /\ TypeIs(item, "tool_result")
    /\ "tool_result" \in DOMAIN item
    /\ item.tool_result # None
    /\ "name" \in DOMAIN item.tool_result
    /\ \E p \in 1..Len(item.tool_result.name) : item.tool_result.name[p] = "cortex_search"

PartsOf(item) ==
    IF "content" \in DOMAIN item.tool_result THEN item.tool_result.content ELSE <<>>

ResultsOf(c) ==
    IF "json" \in DOMAIN c /\ c.json # None /\ "search_results" \in DOMAIN c.json
    THEN c.json.search_results ELSE <<>>

\* <<block, part, result>> of every search result of the payload
EvidencePositions ==
    {p \in (1..Len(PayloadContent)) \X (1..(MaxResults + 1)) \X (1..(MaxResults + 1)) :
        /\ IsSearchBlock(PayloadContent[p[1]])
        /\ p[2] <= Len(PartsOf(PayloadContent[p[1]]))
        /\ p[3] <= Len(ResultsOf(PartsOf(PayloadContent[p[1]])[p[2]]))}

ResultAt(p) == ResultsOf(PartsOf(PayloadContent[p[1]])[p[2]])[p[3]]

\* block order, then order within the block
Before(p, q) ==
    \/ p[1] < q[1]
    \/ p[1] = q[1] /\ p[2] < q[2]
    \/ p[1] = q[1] /\ p[2] = q[2] /\ p[3] < q[3]

EvidenceInOrder ==
    LET found == EvidencePositions
    IN  [n \in 1..Cardinality(found) |->
            LET p == CHOOSE p \in found :
                        Cardinality({q \in found : Before(q, p)}) = n - 1
            IN  IF "text" \in DOMAIN ResultAt(p) THEN ResultAt(p).text ELSE <<>>]

RECURSIVE Interleave(_, _)
Interleave(texts, sep) ==
    IF Len(texts) = 1 THEN texts[1]
    ELSE Interleave(SubSeq(texts, 1, Len(texts) - 1), sep) \o sep \o texts[Len(texts)]

\* C11: the returned evidence is the texts of the search results of the
\* search tool-result blocks, in block order and within a block in result
\* order, joined by the separator; no other block contributes.
C11_EvidenceInBlockThenResultOrder ==
    (epc = "evidence" /\ EvidencePositions # {}) =>
        case_studies = Interleave(EvidenceInOrder, <<ParagraphBreak, "---", ParagraphBreak>>)

\* two search blocks of two results each, with another block between them
C11_Witness ==
    /\ epc = "evidence"
    /\ Len(PayloadContent) = 3
    /\ IsSearchBlock(PayloadContent[1]) /\ IsSearchBlock(PayloadContent[3])
    /\ ~IsSearchBlock(PayloadContent[2])
    /\ \A i \in {1, 3} :
         /\ Len(PartsOf(PayloadContent[i])) = 1
         /\ Len(ResultsOf(PartsOf(PayloadContent[i])[1])) = 2
    /\ case_studies = <<"t1", ParagraphBreak, "---", ParagraphBreak, "t2",
                        ParagraphBreak, "---", ParagraphBreak, "t3",
                        ParagraphBreak, "---", ParagraphBreak, "t4">>

\* the search results that carry a text
EvidenceWithText == {p \in EvidencePositions : "text" \in DOMAIN ResultAt(p)}

\* C12: the returned evidence is never the empty string, and it is the
\* no-evidence sentinel whenever no search result carries a text.
C12_EvidenceNeverEmpty ==
    epc = "evidence" =>
        /\ case_studies # <<>>
        /\ EvidenceWithText = {} => case_studies = NoCaseStudies

\* every field of the payload is absent or of the expected kind
NoNullField ==
    \A i \in 1..Len(PayloadContent) :
        "tool_result" \in DOMAIN PayloadContent[i] =>
            /\ PayloadContent[i].tool_result # None
            /\ \A j \in 1..Len(PartsOf(PayloadContent[i])) :
                 LET c == PartsOf(PayloadContent[i])[j]
                 IN  "json" \in DOMAIN c =>
                        /\ c.json # None
                        /\ \A k \in 1..Len(ResultsOf(c)) : ResultsOf(c)[k] # None

TextBlocksWithText ==
    {i \in 1..Len(PayloadContent) :
        TypeIs(PayloadContent[i], "text") /\ "text" \in DOMAIN PayloadContent[i]}

\* C13: on a payload whose content is missing, empty, or made of blocks with
\* any of their optional sub-fields absent, neither extractor raises, and
\* each returns its sentinel when the payload yields it no text.
C13_ExtractorsDegradeToSentinels ==
    NoNullField =>
        /\ epc # "raised"
        /\ (epc \in {"extracted", "evidence"} /\ TextBlocksWithText = {}) =>
               agent_response = NoAgentResponse
        /\ (epc = "evidence" /\ EvidenceWithText = {}) =>
               case_studies = NoCaseStudies
(***************************************************************************)
(* Properties of judgment recovery (checked under SpecJudge)               *)
(***************************************************************************)
\* call_llm_judge got a reply and ran its try / except on it
JudgeParsed == jpc = "done" /\ conn = "closed"

Returned(j) == j.outcome = "return"
IsUnparsed(j) == Returned(j) /\ "error" \in DOMAIN j.value

MinOf(S) == CHOOSE p \in S : \A q \in S : p <= q

\* (a) the interior of the first fenced block tagged json: <<interior>>, or
\* <<>> when the reply holds no such block
JsonFenceInterior(t) ==
    LET opens == {p \in 1..(Len(t) - 1) : t[p] = Fence /\ t[p + 1] = JsonWord}
    IN  IF opens = {} THEN <<>>
        ELSE LET closes == {q \in (MinOf(opens) + 2)..Len(t) : t[q] = Fence}
             IN  IF closes = {} THEN <<>>
                 ELSE <<SubSeq(t, MinOf(opens) + 2, MinOf(closes) - 1)>>

\* (b) the interior of the first fenced block of any kind
AnyFenceInterior(t) ==
    LET opens == {p \in 1..Len(t) : t[p] = Fence}
    IN  IF opens = {} THEN <<>>
        ELSE LET closes == {q \in (MinOf(opens) + 1)..Len(t) : t[q] = Fence}
             IN  IF closes = {} THEN <<>>
                 ELSE <<SubSeq(t, MinOf(opens) + 1, MinOf(closes) - 1)>>

ParsesAsJson(c) == c # <<>> /\ ~Raised(json_loads(c[1]))

\* the three strategies in their order: (a), (b), (c) the raw text
Strategies(t) == <<JsonFenceInterior(t), AnyFenceInterior(t), <<t>>>>

\* C5 as stated: the result is the parse of the first strategy, in the order
\* (a), (b), (c), whose text parses as JSON, a later strategy being tried
\* whenever an earlier one yields no parseable JSON.
C5_FirstParsingStrategyWins ==
    JudgeParsed =>
        LET S == Strategies(llm_reply)
            ok == {k \in 1..3 : ParsesAsJson(S[k])}
        IN  IF ok = {} THEN ~Returned(judgment) \/ IsUnparsed(judgment)
            ELSE judgment = [outcome |-> "return",
                             value |-> json_loads(S[MinOf(ok)][1]).value]

\* the one strategy the markers in the reply select
SelectedStrategy(t) ==
    IF \E p \in 1..(Len(t) - 1) : t[p] = Fence /\ t[p + 1] = JsonWord
        THEN JsonFenceInterior(t)
    ELSE IF \E p \in 1..Len(t) : t[p] = Fence
        THEN AnyFenceInterior(t)
    ELSE <<t>>

\* C5 as amended: exactly one strategy is attempted, selected by the markers
\* the reply contains ((a) if it contains the json fence, else (b) if it
\* contains a fence, else (c)); the result is that strategy's parse when its
\* text parses as JSON, and no parsed value is returned otherwise: no later
\* strategy is tried.
C5_SelectedStrategyOnly ==
    JudgeParsed =>
        LET c == SelectedStrategy(llm_reply)
        IN  IF ParsesAsJson(c)
            THEN judgment = [outcome |-> "return", value |-> json_loads(c[1]).value]
            ELSE ~Returned(judgment) \/ IsUnparsed(judgment)

\* a reply with a json fence recovered to the judgment object inside it
C5_Witness ==
    /\ JudgeParsed
    /\ StrContains(llm_reply, JsonFence)
    /\ Returned(judgment) /\ judgment.value.judgment

\* C6: for every reply text, judgment recovery never raises to the caller.
C6_RecoveryNeverRaises ==
    JudgeParsed => Returned(judgment)

\* C7: whenever recovery fails, the raw_response of the returned value is
\* the full text the scoring model returned.
C7_FailureCarriesFullReply ==
    (JudgeParsed /\ IsUnparsed(judgment)) =>
        judgment.value.raw_response = llm_reply

\* C8: a returned value is a well-formed Judgment or an UnparsedJudgment,
\* never JSON of another shape.
C8_JudgmentOrUnparsed ==
    (JudgeParsed /\ Returned(judgment)) =>
        (judgment.value.judgment \/ IsUnparsed(judgment))

(***************************************************************************)
(* Properties of the report generator (Spec: the batch; SpecSingle: one    *)
(* report with every shape of reply)                                       *)
(***************************************************************************)
HasMessageId(response) == "message_id" \in DOMAIN response

\* C1 as stated: the first call_agent of a subject carries "0" and every
\* later one carries the message_id the call before it returned.
C1_ParentIsPreviousMessageId ==
    \A k \in 1..Len(turns) :
        IF k = 1 THEN turns[k].parent_message_id = FirstParent
        ELSE /\ HasMessageId(turns[k - 1].response)
             /\ turns[k].parent_message_id = turns[k - 1].response.message_id

\* C1 as amended: the first call_agent of a subject carries "0"; a later
\* one carries the message_id the call before it returned when that reply
\* has one, and otherwise repeats the parent_message_id of the call before
\* it (two turns then share a parent).
C1_ParentChain ==
    /\ \A k \in 1..Len(turns) :
        IF k = 1 THEN turns[k].parent_message_id = FirstParent
        ELSE turns[k].parent_message_id =
                IF HasMessageId(turns[k - 1].response)
                THEN turns[k - 1].response.message_id
                ELSE turns[k - 1].parent_message_id
    /\ \A k \in 1..Len(turns) : turns[k].thread_id = thread_id

\* the second report of a batch: three turns chained "0" -> id 1 -> id 2
C1_Witness ==
    /\ thread_id = ThreadId(2)
    /\ Len(turns) = 3
    /\ turns[1].parent_message_id = FirstParent
    /\ turns[2].parent_message_id = MsgId(thread_id, 1)
    /\ turns[3].parent_message_id = MsgId(thread_id, 2)

\* ---- the batch
RECURSIVE PairsFrom(_, _, _)
PairsFrom(table, i, k) ==
    IF i > Len(table) THEN <<>>
    ELSE IF k > Len(table[i].customer_ids) THEN PairsFrom(table, i + 1, 1)
    ELSE <<<<i, k>>>> \o PairsFrom(table, i, k + 1)

\* every (csm, customer) position of the table, in input order
AllPairs == PairsFrom(csms, 1, 1)

IdAt(p) == csms[p[1]].customer_ids[p[2]]

\* the positions holding a customer id the batch does not skip
AttemptablePairs == SelectSeq(AllPairs, LAMBDA p : IdAt(p) \notin {"", "undefined"})

FailedCalls == {n \in 1..Len(calls) : ~calls[n].ok}

Attempted(p) == \E n \in 1..Len(calls) : calls[n].pair = p

\* C2: a failure of create_thread, call_agent or save_report_to_database is
\* caught at its customer: it never leaves generate_weekly_reports, it is
\* reported in an error line, and every pair after it is still attempted.
C2_FailureIsolatedPerPair ==
    /\ pc = "raised" => FailedCalls = {}
    /\ Len(errors) = Cardinality(FailedCalls)
    /\ pc = "done" =>
           \A n \in 1..Len(AttemptablePairs) : Attempted(AttemptablePairs[n])

\* a finished batch in which a pair failed and a later pair was saved
C2_Witness ==
    /\ pc = "done"
    /\ \E m, n \in 1..Len(calls) :
         /\ m < n
         /\ ~calls[m].ok
         /\ calls[n].op = "save_report" /\ calls[n].ok
         /\ calls[m].pair # calls[n].pair

\* exactly one request failed in the batch, and it was a call_agent
OneTurnFailed ==
    /\ pc = "done"
    /\ Cardinality(FailedCalls) = 1
    /\ \A n \in FailedCalls : calls[n].op = "call_agent"

TheFailedCall == calls[CHOOSE n \in FailedCalls : TRUE]

RowKey(row) == <<row.csm_id, row.customer_id>>
PairKey(p) == <<csms[p[1]].csm_id, IdAt(p)>>
Keys(rows) == [n \in 1..Len(rows) |-> RowKey(rows[n])]

\* the outcome when one turn fails among n subjects: n - 1 reports counted,
\* one error line, naming the failing subject, a row for every other subject
OneFailureOutcome(pairs) ==
    /\ report_count = Len(pairs) - 1
    /\ Len(errors) = 1
    /\ errors[1].customer_id = TheFailedCall.customer_id
    /\ LET others == SelectSeq(pairs, LAMBDA p : p # TheFailedCall.pair)
       IN  Keys(weekly_reports) = [n \in 1..Len(others) |-> PairKey(others[n])]

\* C3 as stated: of N subjects of a batch with exactly one failing turn,
\* N - 1 succeed, one failure is recorded, for the failing subject.
C3_OneFailureAmongAllSubjects ==
    OneTurnFailed => OneFailureOutcome(AllPairs)

\* C3 as amended: N counts the customer ids that are neither empty nor
\* 'undefined' (the others are skipped); of these N subjects, with exactly
\* one failing turn, N - 1 are counted as generated and saved, and exactly
\* one error line is printed, naming the failing subject (the failed count is
\* the number of error lines: the batch keeps no failure list).
C3_OneFailureAmongAttempted ==
    OneTurnFailed => OneFailureOutcome(AttemptablePairs)

\* one failing turn in a batch of at least two attempted subjects and a
\* skipped id
C3_Witness ==
    /\ OneTurnFailed
    /\ Len(AttemptablePairs) >= 2
    /\ Len(AllPairs) > Len(AttemptablePairs)

\* C4 as stated: the batch ends with a completion summary carrying the
\* attempted, succeeded and failed counts.
C4_SummaryWithThreeCounts ==
    pc = "done" =>
        /\ summary # NoSummary
        /\ {"attempted", "failed"} \subseteq DOMAIN summary

\* C4 as amended: once the assignments are loaded, the batch always goes on
\* to print its completion summary, after every pair has been attempted or
\* skipped and also when every subject fails; the summary carries the
\* number of generated reports only (no attempted or failed count).
C4_SummaryAfterAllPairs ==
    /\ pc = "done" =>
         /\ summary = [generated |-> report_count]
         /\ ~InCsm
         /\ \A n \in 1..Len(AttemptablePairs) : Attempted(AttemptablePairs[n])
    /\ pc # "done" => summary = NoSummary
    /\ pc = "raised" => calls = <<>> /\ errors = <<>>
    /\ pc \notin {"done", "raised"} => ENABLED Next

\* a finished batch in which both subjects failed
C4_Witness ==
    /\ pc = "done"
    /\ summary = [generated |-> 0]
    /\ Len(AttemptablePairs) >= 2
    /\ Len(errors) = Len(AttemptablePairs)

\* ---- the text of a section
ContentOf(response) ==
    IF "message" \in DOMAIN response /\ "content" \in DOMAIN response.message
    THEN response.message.content ELSE <<>>

TextBlocksOf(response) == SelectSeq(ContentOf(response), LAMBDA b : TypeIs(b, "text"))

Bodies(blocks) == [n \in 1..Len(blocks) |-> Get(blocks[n], "text", <<>>)]

\* C9 as stated: the section holds the body of the last text block of the
\* turn's reply.
C9_SectionIsLastTextBlock ==
    \A k \in 1..Len(turns) :
        LET blocks == TextBlocksOf(turns[k].response)
        IN  blocks # <<>> =>
                report_sections[turns[k].section] = Bodies(blocks)[Len(blocks)]

\* C9 as amended: the section holds the bodies of all text blocks of the
\* turn's reply, in reply order, joined by a blank line (and the empty
\* string when the reply has no text block).
C9_SectionIsAllTextBlocksJoined ==
    /\ DOMAIN report_sections = {turns[k].section : k \in 1..Len(turns)}
    /\ \A k \in 1..Len(turns) :
        report_sections[turns[k].section] =
            Join(Bodies(TextBlocksOf(turns[k].response)), <<ParagraphBreak>>)

\* a section generated from a reply with two text blocks
C9_Witness ==
    \E k \in 1..Len(turns) :
        /\ Len(TextBlocksOf(turns[k].response)) = 2
        /\ report_sections[turns[k].section] = <<"a", ParagraphBreak, "b">>

\* ---- sessions
CallsOf(op) == {n \in 1..Len(calls) : calls[n].op = op}

\* C14: an invocation of generate_report_for_customer creates one session,
\* each of its turns is sent on that session, and no session carries turns of
\* two report generations, also when one customer id stands under two csms.
C14_OneSessionPerInvocation ==
    /\ \A m, n \in CallsOf("create_thread") : calls[m].pair = calls[n].pair => m = n
    /\ \A n \in CallsOf("call_agent") :
         \E m \in CallsOf("create_thread") :
            /\ m < n
            /\ calls[m].ok
            /\ calls[m].pair = calls[n].pair
            /\ calls[m].thread_id = calls[n].thread_id
    /\ \A m, n \in CallsOf("call_agent") :
         calls[m].thread_id = calls[n].thread_id => calls[m].pair = calls[n].pair
    /\ \A k \in 1..Len(turns) :
         /\ turns[k].thread_id = thread_id
         /\ \E n \in CallsOf("create_thread") :
              calls[n].pair = <<ci, ki>> /\ calls[n].thread_id = thread_id

\* one customer id under two csms, a report generated for each
C14_Witness ==
    \E m, n \in CallsOf("call_agent") :
        /\ calls[m].customer_id = calls[n].customer_id
        /\ calls[m].csm_id # calls[n].csm_id
        /\ calls[m].ok /\ calls[n].ok
        /\ calls[m].thread_id # calls[n].thread_id
        /\ Len(turns) = 3

\* ---- the sections of one report
TurnFailed == calls # <<>> /\ ~calls[Len(calls)].ok

\* C15: the sections of a report are generated one after another in the
\* order performance, business_value, recommendations, none is skipped, and
\* when generate_report_for_customer returns the mapping has exactly these
\* three keys; an empty extraction is stored as an empty entry and is no
\* failure.
C15_ThreeSectionsInFixedOrder ==
    /\ Len(turns) <= 3
    /\ Len(turns) >= 1 => turns[1].section = "performance"
    /\ Len(turns) >= 2 => turns[2].section = "business_value"
    /\ Len(turns) >= 3 => turns[3].section = "recommendations"
    /\ DOMAIN report_sections = {turns[k].section : k \in 1..Len(turns)}
    /\ pc = "save" =>
         /\ Len(turns) = 3
         /\ DOMAIN report_sections = {"performance", "business_value", "recommendations"}
    /\ \A k \in 1..Len(turns) :
         TextBlocksOf(turns[k].response) = <<>> => report_sections[turns[k].section] = <<>>
    /\ pc = "raised" => (calls = <<>> \/ TurnFailed)

\* a returned mapping whose middle section was extracted empty
C15_Witness ==
    /\ pc = "save"
    /\ report_sections["performance"] # <<>>
    /\ report_sections["business_value"] = <<>>
    /\ report_sections["recommendations"] # <<>>

(***************************************************************************)
(* Properties of the connections and of the two entry points               *)
(***************************************************************************)
\* C16: a connection that was opened, by the report entry point or by
\* call_llm_judge, is closed by the time the process or the call has ended,
\* on the failure paths as well.
C16_ConnectionReleasedOnExit ==
    /\ jpc \in {"done", "saved"} => conn # "open"
    /\ exit_status # "running" => generator_conn \notin {"open", "leaked"}

\* the scoring query was sent and raised
ScoringFailed == jpc \in {"done", "saved"} /\ conn = "open"

\* C17: the scoring query is sent once per evaluation and never again; when
\* it fails the exception leaves call_llm_judge (no parse-failure value is
\* made of it) and no judgment record is written.
C17_ScoringOnceAndFailureFatal ==
    /\ scoring_calls <= 1
    /\ conn # "none" /\ jpc # "connected" => scoring_calls = 1
    /\ ScoringFailed =>
         /\ judgment.outcome = "raise"
         /\ output_file = NoOutputFile
         /\ ~ENABLED NextJudge
    /\ output_file # NoOutputFile =>
         /\ judgment.outcome = "return"
         /\ output_file.judgment = judgment.value
         /\ conn = "closed"

\* the scoring query failed: one call made, the exception with the caller
C17_Witness ==
    /\ ScoringFailed
    /\ scoring_calls = 1
    /\ judgment = [outcome |-> "raise", exc |-> "ProgrammingError"]

\* C18: in single mode without both a csm id and a customer id the entry
\* point exits with a non-zero status, and no session is created, no turn
\* issued and no report saved before that.
C18_SingleModeNeedsBothIds ==
    (mode = "single" /\ (csm_id = "" \/ customer_id = "")) =>
        /\ calls = <<>> /\ turns = <<>> /\ next_thread = 1
        /\ weekly_reports = <<>>
        /\ pc \in {"main", "args", "rejected", "raised"}
        /\ exit_status \in {"running", "1", "2"}
        /\ exit_status = "running" => ENABLED NextSingle
        /\ pc = "rejected" /\ exit_status # "running" => exit_status = "2"

\* a csm id without a customer id: rejected, status 2, connection closed
C18_Witness ==
    /\ mode = "single"
    /\ csm_id = "csm1" /\ customer_id = ""
    /\ pc = "rejected"
    /\ exit_status = "2"
    /\ generator_conn = "closed"

(***************************************************************************)
(* Properties of the batch: persistence, counting, no retry                *)
(***************************************************************************)
OkCalls(op, p) == {n \in CallsOf(op) : calls[n].ok /\ calls[n].pair = p}

\* C19: a row is saved for a subject only after its three sections were
\* generated, and the report is counted only after the save has completed:
\* a failed create_thread or call_agent leaves no row and no count, a failed
\* save leaves no count, and report_count is the number of pairs whose
\* generation and save both completed.
C19_SavedAfterSectionsCountedAfterSave ==
    /\ \A n \in CallsOf("save_report") :
         /\ Cardinality({m \in OkCalls("call_agent", calls[n].pair) : m < n}) = 3
         /\ \A m \in 1..Len(calls) : (calls[m].pair = calls[n].pair /\ m # n) => calls[m].ok
    /\ \A k \in 1..Len(weekly_reports) :
         \E n \in CallsOf("save_report") :
            /\ calls[n].csm_id = weekly_reports[k].csm_id
            /\ calls[n].customer_id = weekly_reports[k].customer_id
    /\ Len(weekly_reports) <= Cardinality(CallsOf("save_report"))
    /\ Len(weekly_reports) >= report_count
    /\ report_count = Cardinality({n \in CallsOf("save_report") : calls[n].ok})
    /\ report_count + Len(errors) = Cardinality({calls[n].pair : n \in 1..Len(calls)})
                                        - (IF pc \in {"create_thread", "sections", "save"}
                                              /\ calls # <<>> /\ calls[Len(calls)].pair = <<ci, ki>>
                                           THEN 1 ELSE 0)

\* a finished batch with a saved report, a failed turn and a failed save
C19_Witness ==
    /\ pc = "done"
    /\ report_count = 1
    /\ \E n \in CallsOf("call_agent") : ~calls[n].ok
    /\ \E n \in CallsOf("save_report") : ~calls[n].ok

\* C20: after create_thread or call_agent has failed for a subject no
\* further request is made for that subject in the run; a session sees at
\* most three turns, exactly three when the report is saved, and fewer only
\* when the last turn issued failed.
C20_NoAgentCallAfterFailure ==
    /\ \A m \in 1..Len(calls) :
         ~calls[m].ok => \A n \in (m + 1)..Len(calls) : calls[n].pair # calls[m].pair
    /\ \A p \in {calls[n].pair : n \in 1..Len(calls)} :
         LET sent == {m \in CallsOf("call_agent") : calls[m].pair = p}
             last == CHOOSE m \in sent : \A q \in sent : q <= m
             over == p # <<ci, ki>> \/ pc \in {"loop", "done"}
         IN  /\ Cardinality(sent) <= 3
             /\ (\E n \in CallsOf("save_report") : calls[n].pair = p) =>
                    Cardinality({m \in sent : calls[m].ok}) = 3
             /\ (over /\ sent # {} /\ Cardinality(sent) < 3) => ~calls[last].ok
             /\ (over /\ sent = {}) =>
                    \A n \in 1..Len(calls) : calls[n].pair = p => ~calls[n].ok
             /\ \A m, n \in sent : calls[m].thread_id = calls[n].thread_id

\* a session whose second turn failed, and a report saved after it
C20_Witness ==
    /\ pc = "done"
    /\ \E m \in CallsOf("call_agent") :
         /\ ~calls[m].ok
         /\ Cardinality({q \in CallsOf("call_agent") : calls[q].pair = calls[m].pair}) = 2
         /\ \E n \in CallsOf("save_report") : m < n /\ calls[n].ok

(***************************************************************************)
(* Properties of the batch: continuation ids, order of the pairs, skipped  *)
(* ids                                                                     *)
(***************************************************************************)
\* the message ids the turns before turn k of the running invocation returned
ReturnedBefore(k) ==
    {turns[j].response.message_id :
        j \in {i \in 1..(k - 1) : "message_id" \in DOMAIN turns[i].response}}

\* C21: the parent_message_id of a turn is "0" or a message_id an earlier
\* turn of the same session returned, never an id of another session; after
\* a reply without message_id the next turn carries the parent_message_id of
\* the turn just made.
C21_ParentFromOwnSession ==
    /\ \A k \in 1..Len(turns) :
         /\ turns[k].thread_id = thread_id
         /\ \/ turns[k].parent_message_id = <<"0">>
            \/ /\ turns[k].parent_message_id \in ReturnedBefore(k)
               /\ turns[k].parent_message_id[2] = thread_id[2]
         /\ (k > 1 /\ "message_id" \notin DOMAIN turns[k - 1].response) =>
                turns[k].parent_message_id = turns[k - 1].parent_message_id
    /\ pc = "sections" =>
         \/ parent_message_id = <<"0">>
         \/ /\ parent_message_id \in ReturnedBefore(Len(turns) + 1)
            /\ parent_message_id[2] = thread_id[2]

\* the second session of a batch: its first reply carries no message_id, so
\* its second turn is sent with "0" again, after a first session whose turns
\* returned ids
C21_Witness ==
    /\ thread_id = ThreadId(2)
    /\ \E n \in CallsOf("save_report") : calls[n].thread_id = NoValue /\ calls[n].ok
    /\ Len(turns) = 3
    /\ "message_id" \notin DOMAIN turns[1].response
    /\ turns[2].parent_message_id = <<"0">>
    /\ turns[3].parent_message_id = MsgId(thread_id, 2)


\* the place of a pair in a sequence of pairs, 0 when it is not in it
IndexIn(pairs, p) ==
    IF \E i \in 1..Len(pairs) : pairs[i] = p
    THEN CHOOSE i \in 1..Len(pairs) : pairs[i] = p
    ELSE 0

\* the request closes the attempt of its pair: it failed, or it saved the report
ClosesPair(call) == ~call.ok \/ call.op = "save_report"

\* C22: the batch attempts the (csm, customer) pairs in input order, csms in
\* table order and customers in list order, each once: the requests of a pair
\* are consecutive, a pair's session is created only after the pair before it
\* was saved or failed, and no request follows the failure of its pair.
C22_PairsInInputOrderOnce ==
    Len(calls) > 0 \/ pc = "done" =>
        LET pairs == AttemptablePairs
            place == [n \in 1..Len(calls) |-> IndexIn(pairs, calls[n].pair)]
        IN  /\ \A n \in 1..Len(calls) : place[n] > 0
            /\ Len(calls) > 0 => calls[1].op = "create_thread" /\ place[1] = 1
            /\ \A n \in 1..(Len(calls) - 1) :
                   IF ClosesPair(calls[n])
                   THEN /\ calls[n + 1].op = "create_thread"
                        /\ place[n + 1] = place[n] + 1
                   ELSE /\ calls[n + 1].op # "create_thread"
                        /\ place[n + 1] = place[n]
            /\ pc = "done" /\ Len(pairs) > 0 =>
                   /\ Len(calls) > 0
                   /\ place[Len(calls)] = Len(pairs)
                   /\ ClosesPair(calls[Len(calls)])

\* a finished batch over two csms and three customers: the second one failed
\* at a turn, the first and the third were saved
C22_Witness ==
    /\ pc = "done"
    /\ Len(csms) = 2
    /\ Len(AttemptablePairs) = 3
    /\ \E k, m, n \in 1..Len(calls) :
         /\ k < m /\ m < n
         /\ calls[k].op = "save_report" /\ calls[k].ok
         /\ calls[m].op = "call_agent" /\ ~calls[m].ok
         /\ calls[n].op = "save_report" /\ calls[n].ok
         /\ calls[k].pair = AttemptablePairs[1]
         /\ calls[m].pair = AttemptablePairs[2]
         /\ calls[n].pair = AttemptablePairs[3]


SkippedIds == {"", "undefined"}

\* C23: a customer id that is empty or 'undefined' is skipped by the batch:
\* no request is made for it, no row is inserted for it, and it is counted
\* neither among the generated reports nor among the error lines.
C23_SkippedIdsLeaveNoTrace ==
    /\ \A n \in 1..Len(calls) :
           /\ calls[n].customer_id \notin SkippedIds
           /\ IdAt(calls[n].pair) \notin SkippedIds
    /\ \A n \in 1..Len(weekly_reports) : weekly_reports[n].customer_id \notin SkippedIds
    /\ \A n \in 1..Len(errors) : errors[n].customer_id \notin SkippedIds
    /\ pc \notin {"main", "start"} =>
           LET attemptable == Len(AttemptablePairs)
           IN  /\ report_count + Len(errors) <= attemptable
               /\ pc = "done" =>
                      /\ report_count + Len(errors) = attemptable
                      /\ Cardinality(CallsOf("create_thread")) = attemptable

\* a finished batch whose table held an empty id, 'undefined' and one
\* customer, whose report was saved
C23_Witness ==
    /\ pc = "done"
    /\ Len(AllPairs) = 3
    /\ \E i, j \in 1..3 : IdAt(AllPairs[i]) = "" /\ IdAt(AllPairs[j]) = "undefined"
    /\ Len(AttemptablePairs) = 1
    /\ report_count = 1
    /\ Len(weekly_reports) = 1
    /\ Len(errors) = 0


(* Properties of the judgment record *)
\* the texts extract_case_studies_from_response collects from the response
CollectedTexts == CaseStudies(Get(response_data, "content", <<>>)).texts

\* C24: num_case_studies in the metadata of the judgment record is the number
\* of search result texts collected from the response, 0 when there were
\* none, and the metadata is in the record whether the judgment parsed or not.
C24_EvidenceCountInMetadata ==
    output_file # NoOutputFile =>
        /\ "metadata" \in DOMAIN output_file
        /\ output_file.metadata.num_case_studies = Len(CollectedTexts)

=============================================================================
